---- MODULE Spec2Model ----
(***************************************************************************)
(* Model of the display layer of pymadcad: the shared vertex store         *)
(* (madcad/displays.py, class Vertices), the displays drawn in one ident   *)
(* pass, and the Scheme builder with its compiled display                  *)
(* (madcad/scheme.py).                                                     *)
(***************************************************************************)
EXTENDS Integers, Sequences, FiniteSets, TLC

VARIABLES
    \* ---- Vertices (displays.py:241-267) ----
    positions,      \* constructor argument: one entry per position
    idents,         \* Vertices.idents: one ident per vertex
    nident,         \* Vertices.nident
    flags,          \* Vertices.flags: u1 array, len(positions) entries
    flags_updated,  \* Vertices.flags_updated (the dirty flag)
    vb_flags,       \* content of the GPU buffer Vertices.vb_flags
    store,          \* "new" | "ok" | "ValueError": outcome of the constructor
    uploads,        \* vb_flags.write calls since the last select with a state
    last,           \* the last call made on the store and how it ended
    \* ---- one ident pass over the displays of a scene ----
    startident,     \* the running ident offset threaded through identify
    identpass,      \* per display identified so far: kind, start, count, written
    \* ---- the stack scheduler ----
    stack,          \* the flattened stack entries, in declaration order
    running,        \* the pass being executed, or "idle"
    queue,          \* entries of the running pass still to execute
    executed,       \* entries executed in the running pass, in order
    \* ---- Scheme and Scheme.display (scheme.py) ----
    vertices,       \* Scheme.vertices: one [space, track] record per vertex
    spaces,         \* Scheme.spaces: the registered space objects
    primitives,     \* Scheme.primitives: shader name -> list of index tuples
    components,     \* Scheme.components: (space index, object) pairs
    current,        \* Scheme.current: the default vertex definition
    nadds,          \* number of add calls made on the scheme
    lastadd,        \* the last add call: its object and the vertex count before
    disp,           \* the Scheme.display compiled from the scheme
    frame,          \* outcome of the last render of disp
    camera,         \* the camera state (view.uniforms) of the current frame
    spacecam,       \* camera state disp.spaces was computed for, -1: never
    lastdraw,       \* the last pass drawn by disp and what it drew
    \* ---- a composite display (displays.py:180-238) over the store ----
    comp,           \* "SolidDisplay" | "WebDisplay", "idle" when not built
    options,        \* scene.options: the display-mode flags
    call,           \* the last call made on the composite or a sub-display
    \* ---- a tree of nested displays and its flattened stack ----
    tree,           \* per display: its class and the display that nests it
    flat            \* the entries yielded by the stack of the root display

varsV == << positions, idents, nident, flags, flags_updated, vb_flags, store,
            uploads, last >>
varsP == << startident, identpass >>
varsK == << stack, running, queue, executed >>
varsS == << vertices, spaces, primitives, components, current, nadds, lastadd,
            disp, frame >>
varsF == << camera, spacecam, lastdraw >>
varsC == << comp, options, call >>
varsT == << tree, flat >>
varsX == << varsF, varsC, varsT >>
vars == << varsV, varsP, varsK, varsS, varsX >>

\* ------------------------------------------------------------------ bounds
MaxVerts == 3
MaxIdent == 1
MaxCount == 3
MaxDisplays == 2
MaxEntries == 4
MaxPriority == 2
MaxSchemeVerts == 4
MaxBatchVerts == 2
MaxFaces == 2
MaxTrack == 1
MaxAdds == 2
MaxOver == 2
MaxCamera == 1
MaxMeshVerts == 2
MaxStart == 1
MaxSpaceObjs == 2
MaxComponents == 1
MaxNested == 2
MaxSeqLen == 3
MaxNodes == 5

\* ----------------------------------------------------------------- helpers
Max(S) == CHOOSE x \in S : \A y \in S : y <= x
Range(s) == { s[i] : i \in DOMAIN s }
Zeros(n) == [ i \in 1..n |-> 0 ]
SeqsUpTo(S, n) == UNION { [1..k -> S] : k \in 0..n }
Bump(c) == IF c < MaxCount THEN c + 1 ELSE c

\* ------------------------------------------------ Vertices (displays.py)
mask == 1

\* flags[idents] |= mask  /  flags[idents] &= ~mask on one u1 entry
BitSet(x) == IF (x \div mask) % 2 = 0 THEN x + mask ELSE x
BitClear(x) == IF (x \div mask) % 2 = 1 THEN x - mask ELSE x
BitTest(x) == (x \div mask) % 2 = 1

\* nident = int(max(idents))+1
VerticesNidentOff(ids) == Max(Range(ids))
VerticesNident(ids) == Max(Range(ids)) + 1

\* numpy indexing flags[i] of a 0-based index i is legal iff 0 <= i < len(flags)
InRange(fl, I) == \A i \in I : i + 1 \in DOMAIN fl

\* the array left by  flags[idents] |= mask  (state true) or &= ~mask
SelectFlagsAll(fl, I, state) ==
    [ k \in DOMAIN fl |-> IF state THEN BitSet(fl[k]) ELSE BitClear(fl[k]) ]
SelectFlags(fl, I, state) ==
    [ k \in DOMAIN fl |->
        IF (k - 1) \in I
        THEN (IF state THEN BitSet(fl[k]) ELSE BitClear(fl[k]))
        ELSE fl[k] ]

\* flags[idents] & mask, reported as the set of queried idents that are selected
SelectQuery(fl, I) == { i \in I : BitTest(fl[i + 1]) }

\* flags[self.idents]: the per-vertex flags that update() uploads
Gather(fl, ids) == [ v \in DOMAIN ids |-> fl[ids[v] + 1] ]

\* vb_flags.write(data): overwrites the first len(data) bytes of the buffer
BufferWrite(buf, data) ==
    [ k \in DOMAIN buf |-> IF k \in DOMAIN data THEN data[k] ELSE buf[k] ]

NoCall == [ op |-> "none", idents |-> {}, state |-> "None", ret |-> "None" ]

\* the state of each part of the model before it is used
IdleV ==
    /\ positions = << >>
    /\ idents = << >>
    /\ nident = 0
    /\ flags = << >>
    /\ flags_updated = FALSE
    /\ vb_flags = << >>
    /\ store = "idle"
    /\ uploads = 0
    /\ last = NoCall
IdleP == startident = 0 /\ identpass = << >>
IdleK == stack = << >> /\ running = "idle" /\ queue = << >> /\ executed = << >>
IdleS ==
    /\ vertices = << >>
    /\ spaces = << >>
    /\ primitives = << >>
    /\ components = << >>
    /\ current = [ space |-> 0, shader |-> "idle", track |-> 0 ]
    /\ nadds = 0
    /\ lastadd = [ kind |-> "none" ]
    /\ disp = [ status |-> "idle" ]
    /\ frame = [ status |-> "none", computed |-> 0 ]

NoDraw == [ pass |-> "none", cam |-> 0, used |-> -1, start |-> 0, drawn |-> {} ]
IdleF == camera = 0 /\ spacecam = -1 /\ lastdraw = NoDraw
NoOptions ==
    [ display_faces |-> FALSE, display_groups |-> FALSE,
      display_points |-> FALSE, display_wire |-> FALSE ]
NoCompositeCall ==
    [ op |-> "none", sub |-> "-", start |-> 0, ret |-> "None", value |-> -1,
      events |-> << >> ]
IdleC == comp = "idle" /\ options = NoOptions /\ call = NoCompositeCall
IdleT == tree = << >> /\ flat = << >>
IdleX == IdleF /\ IdleC /\ IdleT

InitVertices ==
    /\ positions \in { Zeros(n) : n \in 0..MaxVerts }
    /\ idents \in SeqsUpTo(0..MaxIdent, MaxVerts)
    /\ nident = 0
    /\ flags = << >>
    /\ flags_updated = FALSE
    /\ vb_flags = << >>
    /\ store = "new"
    /\ uploads = 0
    /\ last = NoCall
    /\ IdleP /\ IdleK /\ IdleS /\ IdleX

\* Vertices.__init__
Construct ==
    /\ store = "new"
    /\ IF idents = << >>
       THEN /\ store' = "ValueError"
            /\ UNCHANGED << nident, flags, flags_updated, vb_flags >>
       ELSE /\ store' = "ok"
            /\ nident' = VerticesNident(idents)
            /\ flags' = Zeros(Len(positions))
            /\ flags_updated' = FALSE
            /\ vb_flags' = Zeros(Len(positions))
    /\ last' = [ NoCall EXCEPT !.op = "construct" ]
    /\ UNCHANGED << positions, idents, uploads, varsP, varsK, varsS, varsX >>

\* the body of Vertices.select(idents, state) with a state
DoSelect(I, state, opname) ==
    IF InRange(flags, I)
    THEN /\ flags' = SelectFlags(flags, I, state)
         /\ flags_updated' = TRUE
         /\ uploads' = 0
         /\ last' = [ op |-> opname, idents |-> I,
                      state |-> IF state THEN "True" ELSE "False",
                      ret |-> "None" ]
    ELSE /\ last' = [ op |-> opname, idents |-> I,
                      state |-> IF state THEN "True" ELSE "False",
                      ret |-> "IndexError" ]
         /\ UNCHANGED << flags, flags_updated, uploads >>

\* Vertices.select(idents, state), state given
Select ==
    /\ store = "ok"
    /\ \E I \in (SUBSET (0..(nident - 1))) \ {{}} : \E state \in BOOLEAN :
          DoSelect(I, state, "select")
    /\ UNCHANGED << positions, idents, nident, vb_flags, store, varsP, varsK, varsS, varsX >>

\* Vertices.select(idents), state None: a pure query
Query ==
    /\ store = "ok"
    /\ \E I \in (SUBSET (0..(nident - 1))) \ {{}} :
          last' = IF InRange(flags, I)
                  THEN [ op |-> "query", idents |-> I, state |-> "None",
                         ret |-> "flags" ]
                  ELSE [ op |-> "query", idents |-> I, state |-> "None",
                         ret |-> "IndexError" ]
    /\ UNCHANGED << positions, idents, nident, flags, flags_updated, vb_flags,
                    store, uploads, varsP, varsK, varsS, varsX >>

\* Vertices.control: self.select(ident, not self.select(ident))
Control ==
    /\ store = "ok"
    /\ \E i \in 0..(nident - 1) :
          IF InRange(flags, {i})
          THEN DoSelect({i}, ~(i \in SelectQuery(flags, {i})), "control")
          ELSE /\ last' = [ op |-> "control", idents |-> {i},
                            state |-> "None", ret |-> "IndexError" ]
               /\ UNCHANGED << flags, flags_updated, uploads >>
    /\ UNCHANGED << positions, idents, nident, vb_flags, store, varsP, varsK, varsS, varsX >>

\* if self.flags_updated: the guard of the upload in update()
NeedsUploadAlways(dirty) == TRUE
NeedsUpload(dirty) == dirty

\* Vertices.update
Update ==
    /\ store = "ok"
    /\ IF ~NeedsUpload(flags_updated)
       THEN /\ last' = [ NoCall EXCEPT !.op = "update" ]
            /\ UNCHANGED << flags_updated, vb_flags, uploads >>
       ELSE IF ~InRange(flags, Range(idents))
       THEN /\ last' = [ NoCall EXCEPT !.op = "update", !.ret = "IndexError" ]
            /\ UNCHANGED << flags_updated, vb_flags, uploads >>
       ELSE IF Len(idents) > Len(vb_flags)
       THEN /\ last' = [ NoCall EXCEPT !.op = "update", !.ret = "BufferError" ]
            /\ UNCHANGED << flags_updated, vb_flags, uploads >>
       ELSE /\ vb_flags' = BufferWrite(vb_flags, Gather(flags, idents))
            /\ flags_updated' = FALSE
            /\ uploads' = Bump(uploads)
            /\ last' = [ NoCall EXCEPT !.op = "update", !.ret = "uploaded" ]
    /\ UNCHANGED << positions, idents, nident, flags, store, varsP, varsK, varsS, varsX >>

NextVertices == Construct \/ Select \/ Query \/ Control \/ Update

SpecVertices == InitVertices /\ [][NextVertices]_vars


\* ------------------------------ composite displays (displays.py:180-238)
\* A SolidDisplay or WebDisplay owns one Vertices store and its sub-displays.
OptionNames ==
    { "display_faces", "display_groups", "display_points", "display_wire" }
OptionSets ==
    [ display_faces : BOOLEAN, display_groups : BOOLEAN,
      display_points : BOOLEAN, display_wire : BOOLEAN ]

\* the sub-displays built by the constructor, and the class of each
SubDisplays(kind) ==
    IF kind = "SolidDisplay"
    THEN { "disp_faces", "disp_groups", "disp_points", "disp_wire" }
    ELSE { "disp_edges", "disp_groups", "disp_points" }
SubClass(kind, sub) ==
    IF kind = "SolidDisplay"
    THEN CASE sub = "disp_faces" -> "FacesDisplay"
           [] sub = "disp_groups" -> "LinesDisplay"
           [] sub = "disp_points" -> "PointsDisplay"
           [] OTHER -> "LinesDisplay"
    ELSE CASE sub = "disp_edges" -> "LinesDisplay"
           [] OTHER -> "PointsDisplay"

\* Vertices.update seen as a step: how it ends in the current state
UpdateOutcome ==
    IF ~NeedsUpload(flags_updated) THEN "noop"
    ELSE IF ~InRange(flags, Range(idents)) THEN "IndexError"
    ELSE IF Len(idents) > Len(vb_flags) THEN "BufferError"
    ELSE "uploaded"
Raised(outcome) == outcome \in { "IndexError", "BufferError", "AttributeError" }

\* the sub-displays render draws, in the order of the code
SolidDraws(opts) ==
    (IF opts.display_faces THEN << "disp_faces" >> ELSE << >>)
    \o (IF opts.display_groups THEN << "disp_groups" >> ELSE << >>)
    \o (IF opts.display_points THEN << "disp_points" >> ELSE << >>)
    \o (IF opts.display_wire THEN << "disp_wire" >> ELSE << >>)
WebDraws(opts) ==
    << "disp_edges" >>
    \o (IF opts.display_groups THEN << "disp_groups" >> ELSE << >>)
    \o (IF opts.display_points THEN << "disp_points" >> ELSE << >>)
Draws(kind, opts) ==
    IF kind = "SolidDisplay" THEN SolidDraws(opts) ELSE WebDraws(opts)

\* the statements of SolidDisplay.render / WebDisplay.render, in order
RenderStepsLate(kind, opts) == Draws(kind, opts) \o << "update" >>
RenderSteps(kind, opts) == << "update" >> \o Draws(kind, opts)

\* the steps executed one after the other: each is logged with the dirty flag
\* it found; update clears the flag, or raises and ends the call
RECURSIVE RunSteps(_, _, _, _)
RunSteps(steps, k, dirty, outcome) ==
    IF k > Len(steps) THEN << >>
    ELSE LET e == [ step |-> steps[k], dirty |-> dirty, start |-> -1 ]
         IN  IF steps[k] = "update"
             THEN IF Raised(outcome) THEN << e >>
                  ELSE << e >> \o RunSteps(steps, k + 1, FALSE, outcome)
             ELSE << e >> \o RunSteps(steps, k + 1, dirty, outcome)

InitCompositeWith(opts) ==
    /\ comp \in { "SolidDisplay", "WebDisplay" }
    /\ options \in opts
    /\ call = NoCompositeCall
    /\ positions \in { Zeros(n) : n \in 1..MaxMeshVerts }
    /\ idents \in [ 1..Len(positions) -> 0..MaxIdent ]
    /\ nident = VerticesNident(idents)
    /\ flags = Zeros(Len(positions))
    /\ flags_updated = FALSE
    /\ vb_flags = Zeros(Len(positions))
    /\ store = "ok"
    /\ uploads = 0
    /\ last = NoCall
    /\ IdleP /\ IdleK /\ IdleS /\ IdleF /\ IdleT

\* the user switches a display mode in scene.options
SetOption ==
    /\ comp # "idle"
    /\ \E name \in OptionNames : options' = [ options EXCEPT ![name] = ~@ ]
    /\ call' = [ NoCompositeCall EXCEPT !.op = "setoption" ]
    /\ UNCHANGED << comp, varsV, varsP, varsK, varsS, varsF, varsT >>

\* SolidDisplay.select / WebDisplay.select(idents, state):
\* self.vertices.select(*args), nothing is returned
CompositeSelect ==
    /\ comp # "idle"
    /\ \E I \in (SUBSET (0..(nident - 1))) \ {{}} : \E state \in BOOLEAN :
          /\ DoSelect(I, state, "select")
          /\ call' = [ NoCompositeCall EXCEPT !.op = "select",
                         !.ret = IF InRange(flags, I) THEN "None"
                                 ELSE "IndexError" ]
    /\ UNCHANGED << positions, idents, nident, vb_flags, store, comp, options,
                    varsP, varsK, varsS, varsF, varsT >>

\* SolidDisplay.select / WebDisplay.select(idents): the value computed by
\* the store is dropped, the call returns None
CompositeQuery ==
    /\ comp # "idle"
    /\ \E I \in (SUBSET (0..(nident - 1))) \ {{}} :
          LET ok == InRange(flags, I)
          IN  /\ last' = [ op |-> "query", idents |-> I, state |-> "None",
                           ret |-> IF ok THEN "flags" ELSE "IndexError" ]
              /\ call' = [ NoCompositeCall EXCEPT !.op = "query",
                             !.ret = IF ok THEN "None" ELSE "IndexError" ]
    /\ UNCHANGED << positions, idents, nident, flags, flags_updated, vb_flags,
                    store, uploads, comp, options, varsP, varsK, varsS, varsF,
                    varsT >>

\* SolidDisplay.control / WebDisplay.control: self.vertices.control(*args)
CompositeControl ==
    /\ comp # "idle"
    /\ \E i \in 0..(nident - 1) :
          IF InRange(flags, {i})
          THEN /\ DoSelect({i}, ~(i \in SelectQuery(flags, {i})), "control")
               /\ call' = [ NoCompositeCall EXCEPT !.op = "control" ]
          ELSE /\ last' = [ op |-> "control", idents |-> {i},
                            state |-> "None", ret |-> "IndexError" ]
               /\ call' = [ NoCompositeCall EXCEPT !.op = "control",
                              !.ret = "IndexError" ]
               /\ UNCHANGED << flags, flags_updated, uploads >>
    /\ UNCHANGED << positions, idents, nident, vb_flags, store, comp, options,
                    varsP, varsK, varsS, varsF, varsT >>

\* SolidDisplay.render / WebDisplay.render
CompositeRender ==
    /\ comp # "idle"
    /\ LET outcome == UpdateOutcome
           steps == RenderSteps(comp, options)
           events == RunSteps(steps, 1, flags_updated, outcome)
           updated == \E k \in DOMAIN events : events[k].step = "update"
       IN  /\ call' = [ NoCompositeCall EXCEPT !.op = "render",
                          !.ret = IF updated /\ Raised(outcome) THEN outcome
                                  ELSE "None",
                          !.events = events ]
           /\ last' = [ NoCall EXCEPT !.op = "update",
                          !.ret = IF outcome = "noop" THEN "None"
                                  ELSE outcome ]
           /\ IF outcome = "uploaded"
              THEN /\ vb_flags' = BufferWrite(vb_flags, Gather(flags, idents))
                   /\ flags_updated' = FALSE
                   /\ uploads' = Bump(uploads)
              ELSE UNCHANGED << vb_flags, flags_updated, uploads >>
    /\ UNCHANGED << positions, idents, nident, flags, store, comp, options,
                    varsP, varsK, varsS, varsF, varsT >>

\* FacesDisplay / LinesDisplay / PointsDisplay .identify(scene, startident):
\* PointsDisplay draws self.va_idents, an attribute its constructor never sets
SubIdentifyCall(sub, start, opname) ==
    IF SubClass(comp, sub) = "PointsDisplay"
    THEN [ op |-> opname, sub |-> sub, start |-> start,
           ret |-> "AttributeError", value |-> -1, events |-> << >> ]
    ELSE [ op |-> opname, sub |-> sub, start |-> start,
           ret |-> "int", value |-> nident,
           events |-> << [ step |-> sub, dirty |-> flags_updated,
                           start |-> start ] >> ]

SubIdentify ==
    /\ comp # "idle"
    /\ \E sub \in SubDisplays(comp) : \E start \in 0..MaxStart :
          call' = SubIdentifyCall(sub, start, "subidentify")
    /\ UNCHANGED << comp, options, varsV, varsP, varsK, varsS, varsF, varsT >>

\* the sub-display a composite identifies with
IdentifyTargetGated(kind, opts) ==
    IF kind = "SolidDisplay"
    THEN (IF opts.display_faces THEN "disp_faces" ELSE "disp_points")
    ELSE "disp_edges"
IdentifyTarget(kind, opts) ==
    IF kind = "SolidDisplay" THEN "disp_faces" ELSE "disp_edges"

\* SolidDisplay.identify / WebDisplay.identify(scene, startident)
CompositeIdentify ==
    /\ comp # "idle"
    /\ \E start \in 0..MaxStart :
          LET sub == SubIdentifyCall(IdentifyTarget(comp, options), start,
                                     "identify")
          IN  call' = IF Raised(sub.ret) THEN sub
                      ELSE [ sub EXCEPT !.sub = "-", !.value = nident ]
    /\ UNCHANGED << comp, options, varsV, varsP, varsK, varsS, varsF, varsT >>

\* a composite whose store is selected, toggled and drawn, with every display
\* mode off or every one on
InitComposite ==
    InitCompositeWith({ o \in OptionSets :
        \A a \in OptionNames : o[a] = o.display_faces })

NextComposite ==
    CompositeSelect \/ CompositeQuery \/ CompositeControl \/ CompositeRender

SpecComposite == InitComposite /\ [][NextComposite]_vars

\* a composite drawn and identified while the display modes are switched
InitModes == InitCompositeWith(OptionSets)

NextModes ==
    SetOption \/ CompositeRender \/ SubIdentify \/ CompositeIdentify

SpecModes == InitModes /\ [][NextModes]_vars

\* ------------------------------------- one ident pass (displays.py, scheme.py)
\* Each display is identified once, in traversal order, with the running
\* offset: startident += disp.identify(scene, startident) for the displays of
\* displays.py, view.identstep(self.nidents) for a Scheme display.
IdentStep(start, count) == start + count

\* the ident shaders write start_ident + item_ident for every vertex drawn
DrawIdents(start, ids) == { start + ids[v] : v \in DOMAIN ids }

\* self.nidents = max(v[5] for v in sch.vertices)+1
DisplayNidentsOff(tracks) == Max(Range(tracks))
DisplayNidents(tracks) == Max(Range(tracks)) + 1

\* the idents (or tracks) carried by the vertices of a display
VertexIdents == SeqsUpTo(0..MaxIdent, MaxVerts) \ { << >> }

Identified(kind, count, written) ==
    /\ identpass' = Append(identpass,
          [ kind |-> kind, start |-> startident, count |-> count,
            written |-> written ])
    /\ startident' = IdentStep(startident, count)
    /\ UNCHANGED << varsV, varsK, varsS, varsX >>

\* PointDisplay.identify: ident_shader['ident'] = startident; return 1
PointIdentify ==
    /\ Len(identpass) < MaxDisplays
    /\ Identified("PointDisplay", 1, { startident })

\* AxisDisplay.identify: ident_shader['ident'] = startident; return 1
AxisIdentify ==
    /\ Len(identpass) < MaxDisplays
    /\ Identified("AxisDisplay", 1, { startident })

\* SolidDisplay.identify: disp_faces.identify(scene, startident);
\* return self.vertices.nident
SolidIdentify ==
    /\ Len(identpass) < MaxDisplays
    /\ \E ids \in VertexIdents :
        Identified("SolidDisplay", VerticesNident(ids),
                   DrawIdents(startident, ids))

\* WebDisplay.identify: disp_edges.identify(scene, startident);
\* return self.vertices.nident
WebIdentify ==
    /\ Len(identpass) < MaxDisplays
    /\ \E ids \in VertexIdents :
        Identified("WebDisplay", VerticesNident(ids),
                   DrawIdents(startident, ids))

\* Scheme.display.identify: startident = view.identstep(self.nidents)
SchemeIdentify ==
    /\ Len(identpass) < MaxDisplays
    /\ \E tracks \in VertexIdents :
        Identified("Scheme", DisplayNidents(tracks),
                   DrawIdents(startident, tracks))

InitIdent == IdleV /\ IdleP /\ IdleK /\ IdleS /\ IdleX

NextIdent ==
    PointIdentify \/ AxisIdentify \/ SolidIdentify \/ WebIdentify
        \/ SchemeIdentify

SpecIdent == InitIdent /\ [][NextIdent]_vars

\* ------------------------------------------------------ the stack scheduler
\* The scene groups the entries (scope, pass, priority, callable) of every
\* display by pass and runs each pass in ascending priority, entries of equal
\* priority in declaration order.  An entry is named by its index in stack.
PassNames == { "screen", "ident" }
StackEntries == [ pass : PassNames, priority : 0..MaxPriority ]

\* where entry e goes in the sorted sequence s: before the first entry that
\* must run after it
InsertAtTies(st, s, e) ==
    LET later == { j \in DOMAIN s : st[s[j]].priority >= st[e].priority }
    IN  IF later = {} THEN Len(s) + 1
        ELSE CHOOSE j \in later : \A k \in later : j <= k
InsertAt(st, s, e) ==
    LET later == { j \in DOMAIN s : st[s[j]].priority > st[e].priority }
    IN  IF later = {} THEN Len(s) + 1
        ELSE CHOOSE j \in later : \A k \in later : j <= k

Insert(st, s, e) ==
    LET at == InsertAt(st, s, e)
    IN  SubSeq(s, 1, at - 1) \o << e >> \o SubSeq(s, at, Len(s))

\* the entries of pass p among the first n of st, sorted by insertion
RECURSIVE PassOrder(_, _, _)
PassOrder(st, p, n) ==
    IF n = 0 THEN << >>
    ELSE IF st[n].pass = p
         THEN Insert(st, PassOrder(st, p, n - 1), n)
         ELSE PassOrder(st, p, n - 1)

InitStack ==
    /\ IdleV /\ IdleP /\ IdleS /\ IdleX
    /\ stack \in SeqsUpTo(StackEntries, MaxEntries)
    /\ running = "idle"
    /\ queue = << >>
    /\ executed = << >>

\* a pass is requested: its entries are collected and ordered
StartPass ==
    /\ running = "idle"
    /\ \E p \in PassNames :
          /\ running' = p
          /\ queue' = PassOrder(stack, p, Len(stack))
    /\ executed' = << >>
    /\ UNCHANGED << stack, varsV, varsP, varsS, varsX >>

\* the next callable of the running pass is called
Execute ==
    /\ running # "idle"
    /\ queue # << >>
    /\ executed' = Append(executed, Head(queue))
    /\ queue' = Tail(queue)
    /\ UNCHANGED << stack, running, varsV, varsP, varsS, varsX >>

\* the pass is over
EndPass ==
    /\ running # "idle"
    /\ queue = << >>
    /\ running' = "idle"
    /\ executed' = << >>
    /\ UNCHANGED << stack, queue, varsV, varsP, varsS, varsX >>

NextStack == StartPass \/ Execute \/ EndPass

SpecStack == InitStack /\ [][NextStack]_vars

\* ------------------------------------ the stack of nested displays (scheme.py)
\* A tree of displays: display 1 is the root, every other display is nested
\* in an earlier one. A Scheme.display nests its components; a
\* note_leading_display nests the two Scheme displays it builds.
DisplayClasses == { "Scheme.display", "note_leading_display" }

RECURSIVE ChildrenFrom(_, _, _)
ChildrenFrom(t, i, j) ==
    IF j > Len(t) THEN << >>
    ELSE (IF t[j].parent = i THEN << j >> ELSE << >>)
            \o ChildrenFrom(t, i, j + 1)
Children(t, i) == ChildrenFrom(t, i, i + 1)

\* every display but the root is nested in an earlier display
ParentMaps(n) ==
    { p \in [ 1..n -> 0..(n - 1) ] :
        p[1] = 0 /\ \A i \in 2..n : p[i] \in 1..(i - 1) }

Trees ==
    { t \in UNION { { [ i \in 1..n |-> [ class |-> c[i], parent |-> p[i] ] ] :
                        c \in [ 1..n -> DisplayClasses ],
                        p \in ParentMaps(n) } : n \in 1..MaxNodes } :
        \A i \in DOMAIN t :
            t[i].class = "note_leading_display" =>
                /\ Len(Children(t, i)) = 2
                /\ \A k \in 1..2 :
                      t[Children(t, i)[k]].class = "Scheme.display" }

\* the two entries a display yields for itself
OwnEntries(i) ==
    << [ node |-> i, pass |-> "screen", priority |-> 2 ],
       [ node |-> i, pass |-> "ident", priority |-> 2 ] >>

\* Scheme.display.stack: own entries, then yield from disp.stack(scene) for
\* each component; note_leading_display.stack: own entries only
RECURSIVE Stack(_, _)
RECURSIVE StackOfAll(_, _, _)
StackOfAll(t, kids, k) ==
    IF k > Len(kids) THEN << >>
    ELSE Stack(t, kids[k]) \o StackOfAll(t, kids, k + 1)
Stack(t, i) ==
    IF t[i].class = "Scheme.display"
    THEN OwnEntries(i) \o StackOfAll(t, Children(t, i), 1)
    ELSE OwnEntries(i)

InitTree ==
    /\ IdleV /\ IdleP /\ IdleK /\ IdleS /\ IdleF /\ IdleC
    /\ tree \in Trees
    /\ flat = << >>

\* the scene collects the stack of the root display
CollectStack ==
    /\ flat = << >>
    /\ flat' = Stack(tree, 1)
    /\ UNCHANGED << tree, varsV, varsP, varsK, varsS, varsF, varsC >>

NextTree == CollectStack

SpecTree == InitTree /\ [][NextTree]_vars

\* -------------------------------------------------------- Scheme (scheme.py)
\* Space objects are compared by identity; world is object 0 and the k-th other
\* object met by a scheme is named k.
world == 0
ShaderNames == { "wire", "line", "fill" }

\* Scheme.display.load: shader name -> primitive drawn by its program
shaders == [ name \in { "line", "fill" } |->
                IF name = "line" THEN "LINES" ELSE "TRIANGLES" ]

Min(a, b) == IF a < b THEN a ELSE b

\* self.spaces.index(space), 0-based; len(self.spaces) when it is appended
SpaceIndex(sp, obj) ==
    IF obj \in Range(sp)
    THEN (CHOOSE i \in DOMAIN sp :
              sp[i] = obj /\ \A j \in DOMAIN sp : sp[j] = obj => i <= j) - 1
    ELSE Len(sp)
SpacesWithDup(sp, obj) == Append(sp, obj)
SpacesWith(sp, obj) == IF obj \in Range(sp) THEN sp ELSE Append(sp, obj)

\* keyword arguments of set/add: "-" and -1 stand for an absent keyword
NoKw == [ shader |-> "-", space |-> -1 ]

\* self.current after set(**kw)
CurrentAfter(kw) ==
    [ shader |-> IF kw.shader = "-" THEN current.shader ELSE kw.shader,
      space  |-> IF kw.space = -1 THEN current.space
                 ELSE SpaceIndex(spaces, kw.space),
      track  |-> current.track ]
\* self.spaces after set(**kw)
SpacesAfter(kw) ==
    IF kw.space = -1 THEN spaces ELSE SpacesWith(spaces, kw.space)

\* if self.current['shader'] not in self.primitives: self.primitives[...] = []
PrimitivesWith(prims, name) ==
    [ x \in (DOMAIN prims) \cup { name } |->
        IF x \in DOMAIN prims THEN prims[x] ELSE << >> ]

\* the vertices appended for n points with the current definition
NewVertices(cur, n) ==
    [ i \in 1..n |-> [ space |-> cur.space, track |-> cur.track ] ]

\* ((a+l, b+l, c+l) for a,b,c in obj.faces), also for the pairs of obj.edges
Offset(prims, l) ==
    [ k \in DOMAIN prims |-> [ j \in DOMAIN prims[k] |-> prims[k][j] + l ] ]

\* for f, track in zip(obj.faces, obj.tracks): for p in f:
\*     self.vertices[p+l][5] = track
RECURSIVE BackPropagate(_, _, _, _, _)
BackPropagate(vs, prims, tracks, l, k) ==
    IF k > Min(Len(prims), Len(tracks)) THEN vs
    ELSE BackPropagate(
            [ i \in DOMAIN vs |->
                IF (i - 1 - l) \in Range(prims[k])
                THEN [ vs[i] EXCEPT !.track = tracks[k] ]
                ELSE vs[i] ],
            prims, tracks, l, k + 1)

\* ((i, i+1) for i in range(l, n-1))
Polyline(l, n) == [ j \in 1..(n - 1 - l) |-> << l + j - 1, l + j >> ]

\* ---- the objects given to add
\* faces (edges) of a mesh (web) of n points: index tuples a < b (< c), the
\* list in lexicographic order without repetition, at most MaxFaces of them
Tuples(n, arity) ==
    IF arity = 3
    THEN { << a, b, c >> : a \in 0..(n-1), b \in 0..(n-1), c \in 0..(n-1) }
    ELSE { << a, b >> : a \in 0..(n-1), b \in 0..(n-1) }
Increasing(t) == \A i \in 1..(Len(t) - 1) : t[i] < t[i+1]
Before(t, u) ==
    \E i \in DOMAIN t :
        /\ t[i] < u[i]
        /\ \A j \in 1..(i - 1) : t[j] = u[j]
RECURSIVE InOrder(_)
InOrder(S) ==
    IF S = {} THEN << >>
    ELSE LET m == CHOOSE t \in S : \A u \in S \ { t } : Before(t, u)
         IN  << m >> \o InOrder(S \ { m })
PrimitiveLists(n, arity) ==
    { InOrder(F) :
        F \in { G \in SUBSET { t \in Tuples(n, arity) : Increasing(t) } :
                  Cardinality(G) <= MaxFaces } }

InitScheme ==
    /\ IdleV /\ IdleP /\ IdleK /\ IdleX
    /\ vertices = << >>
    /\ spaces = << world >>
    /\ primitives = << >>
    /\ components = << >>
    /\ current = [ space |-> 0, shader |-> "wire", track |-> 0 ]
    /\ nadds = 0
    /\ lastadd = [ kind |-> "none" ]
    /\ disp = [ status |-> "none" ]
    /\ frame = [ status |-> "none", computed |-> 0 ]

\* Scheme.set(shader=...)
Set ==
    /\ disp.status = "none"
    /\ \E sh \in ShaderNames :
          LET kw == [ NoKw EXCEPT !.shader = sh ]
          IN  /\ current' = CurrentAfter(kw)
              /\ spaces' = SpacesAfter(kw)
    /\ UNCHANGED << vertices, primitives, components, nadds, lastadd, disp,
                    frame, varsV, varsP, varsK, varsX >>

\* Scheme.add(obj, **kw) for a Mesh (arity 3) or a Web (arity 2) of n points
AddMeshOrWeb(kind, arity, kw, n, prims, tracks) ==
    LET cur == CurrentAfter(kw)
        l == Len(vertices)
        indices == PrimitivesWith(primitives, cur.shader)
    IN  /\ current' = cur
        /\ spaces' = SpacesAfter(kw)
        /\ vertices' = BackPropagate(vertices \o NewVertices(cur, n),
                                     prims, tracks, l, 1)
        /\ primitives' =
              [ indices EXCEPT ![cur.shader] = @ \o Offset(prims, l) ]
        /\ lastadd' = [ kind |-> kind, l |-> l, n |-> n, prims |-> prims,
                        tracks |-> tracks, shader |-> cur.shader ]
        /\ nadds' = nadds + 1
        /\ UNCHANGED << components, disp, frame, varsV, varsP, varsK, varsX >>

AddMesh(room, names) ==
    /\ disp.status = "none"
    /\ nadds < MaxAdds
    /\ \E sh \in names \cup { "-" } :
       \E n \in 0..(room - Len(vertices)) :
       \E faces \in PrimitiveLists(n, 3) :
       \E tracks \in [ DOMAIN faces -> 0..MaxTrack ] :
          AddMeshOrWeb("Mesh", 3, [ NoKw EXCEPT !.shader = sh ], n, faces,
                       tracks)

AddWeb(room, names) ==
    /\ disp.status = "none"
    /\ nadds < MaxAdds
    /\ \E sh \in names \cup { "-" } :
       \E n \in 0..(room - Len(vertices)) :
       \E edges \in PrimitiveLists(n, 2) :
       \E tracks \in [ DOMAIN edges -> 0..MaxTrack ] :
          AddMeshOrWeb("Web", 2, [ NoKw EXCEPT !.shader = sh ], n, edges,
                       tracks)

\* Scheme.add(obj, **kw) for a sequence of n points
AddPointsWith(kw, n) ==
    LET cur == CurrentAfter(kw)
        l == Len(vertices)
        indices == PrimitivesWith(primitives, cur.shader)
    IN  /\ current' = cur
        /\ spaces' = SpacesAfter(kw)
        /\ vertices' = vertices \o NewVertices(cur, n)
        /\ primitives' =
              [ indices EXCEPT ![cur.shader] = @ \o Polyline(l, l + n) ]
        /\ lastadd' = [ kind |-> "points", l |-> l, n |-> n, prims |-> << >>,
                        tracks |-> << >>, shader |-> cur.shader ]
        /\ nadds' = nadds + 1
        /\ UNCHANGED << components, disp, frame, varsV, varsP, varsK, varsX >>

AddPoints(room, names) ==
    /\ disp.status = "none"
    /\ nadds < MaxAdds
    /\ \E sh \in names \cup { "-" } :
       \E n \in 0..(room - Len(vertices)) :
          AddPointsWith([ NoKw EXCEPT !.shader = sh ], n)

\* Scheme.add(obj, **kw) for any other object: self.component(obj)
AddComponent ==
    /\ disp.status = "none"
    /\ nadds < MaxAdds
    /\ \E sh \in ShaderNames \cup { "-" } :
          LET cur == CurrentAfter([ NoKw EXCEPT !.shader = sh ])
          IN  /\ current' = cur
              /\ primitives' = PrimitivesWith(primitives, cur.shader)
              /\ components' = Append(components, << cur.space, "obj" >>)
              /\ lastadd' = [ kind |-> "component", l |-> Len(vertices),
                              n |-> 0, prims |-> << >>, tracks |-> << >>,
                              shader |-> cur.shader ]
    /\ nadds' = nadds + 1
    /\ UNCHANGED << vertices, spaces, disp, frame, varsV, varsP, varsK, varsX >>

\* ---- Scheme.display
max_spaces == 32

\* for shname,batch in sch.primitives.items(): if not batch: continue
ReferencedAll(prims) == DOMAIN prims
Referenced(prims) == { name \in DOMAIN prims : prims[name] # << >> }

\* the batches whose shader draws prim, one after the other
RECURSIVE Batches(_, _, _)
Batches(prims, names, prim) ==
    IF names = {} THEN << >>
    ELSE LET name == CHOOSE x \in names : TRUE
         IN  (IF shaders[name] = prim THEN prims[name] ELSE << >>)
                \o Batches(prims, names \ { name }, prim)

Tracks(vs) == [ i \in DOMAIN vs |-> vs[i].track ]

\* Scheme.display.__init__(scene, sch)
Compile ==
    /\ disp.status = "none"
    /\ disp' =
         IF vertices = << >>
         THEN [ status |-> "ValueError" ]
         ELSE IF \E name \in Referenced(primitives) : name \notin DOMAIN shaders
         THEN [ status |-> "KeyError" ]
         ELSE [ status |-> "ok",
                spacegens |-> spaces,
                warned |-> Len(spaces) > max_spaces,
                nidents |-> DisplayNidents(Tracks(vertices)),
                vas |-> [ name \in Referenced(primitives) |-> shaders[name] ],
                ident_triangles |->
                    Batches(primitives, Referenced(primitives), "LINES"),
                ident_lines |->
                    Batches(primitives, Referenced(primitives), "TRIANGLES") ]
    /\ UNCHANGED << vertices, spaces, primitives, components, current, nadds,
                    lastadd, frame, varsV, varsP, varsK, varsX >>

\* what a pass draws: the primitive mode and the indices of each vertex array
Drawn(mode, indices) ==
    IF indices = << >> THEN {} ELSE { [ mode |-> mode, indices |-> indices ] }

\* Scheme.display.render(view): compute_spaces writes self.spaces[i] for each
\* space generator in turn, then each vertex array is drawn
Render ==
    /\ disp.status = "ok"
    /\ spacecam' = camera
    /\ IF Len(disp.spacegens) > max_spaces
       THEN /\ frame' = [ status |-> "IndexError", computed |-> max_spaces ]
            /\ UNCHANGED lastdraw
       ELSE /\ frame' = [ status |-> "rendered",
                          computed |-> Len(disp.spacegens) ]
            /\ lastdraw' =
                 [ pass |-> "screen", cam |-> camera, used |-> camera,
                   start |-> 0,
                   drawn |-> UNION { Drawn(disp.vas[name], primitives[name]) :
                                        name \in DOMAIN disp.vas } ]
    /\ UNCHANGED << vertices, spaces, primitives, components, current, nadds,
                    lastadd, disp, camera, varsV, varsP, varsK, varsC, varsT >>

\* Scheme.display.identify(view): the ident program gets the offset of
\* view.identstep and self.spaces as they are, then vai_lines is drawn as
\* LINES and vai_triangles as TRIANGLES
Identify ==
    /\ disp.status = "ok"
    /\ startident < MaxCount
    /\ startident' = IdentStep(startident, disp.nidents)
    /\ lastdraw' =
         [ pass |-> "ident", cam |-> camera, used |-> spacecam,
           start |-> startident,
           drawn |-> Drawn("LINES", disp.ident_lines)
                        \cup Drawn("TRIANGLES", disp.ident_triangles) ]
    /\ UNCHANGED << identpass, varsS, camera, spacecam, varsV, varsK, varsC,
                    varsT >>

\* a scheme of few vertices built by every kind of call
NextScheme ==
    \/ Set
    \/ AddMesh(MaxBatchVerts, ShaderNames)
    \/ AddWeb(MaxBatchVerts, ShaderNames)
    \/ AddPoints(MaxBatchVerts, ShaderNames)
    \/ AddComponent
    \/ Compile

SpecScheme == InitScheme /\ [][NextScheme]_vars

\* a scheme built from meshes, webs and point sequences
NextMesh ==
    \/ AddMesh(MaxSchemeVerts, { "fill" })
    \/ AddWeb(MaxSchemeVerts, { "line" })
    \/ AddPoints(MaxSchemeVerts, { "line" })
    \/ Compile

SpecMesh == InitScheme /\ [][NextMesh]_vars

\* ---- a scheme that registers many spaces
\* Scheme.set(space=obj) with an object the scheme has not met
SetNewSpace ==
    /\ disp.status = "none"
    /\ Len(spaces) < max_spaces + MaxOver
    /\ LET kw == [ NoKw EXCEPT !.space = Len(spaces) ]
       IN  /\ current' = CurrentAfter(kw)
           /\ spaces' = SpacesAfter(kw)
    /\ UNCHANGED << vertices, primitives, components, nadds, lastadd, disp,
                    frame, varsV, varsP, varsK, varsX >>

\* Scheme.add(points, shader='line') on a scheme without vertices
AddFirstPoints ==
    /\ disp.status = "none"
    /\ vertices = << >>
    /\ \E n \in 1..MaxSchemeVerts :
          AddPointsWith([ NoKw EXCEPT !.shader = "line" ], n)

NextSpaces == SetNewSpace \/ AddFirstPoints \/ Compile \/ Render

SpecSpaces == InitScheme /\ [][NextSpaces]_vars

\* ---- a scheme whose calls name space objects
\* the space keyword of a call: absent, or one of the space objects
SpaceKw == { -1 } \cup 0..MaxSpaceObjs

\* Scheme.set(space=obj)
SetSpace ==
    /\ disp.status = "none"
    /\ \E obj \in 0..MaxSpaceObjs :
          LET kw == [ NoKw EXCEPT !.space = obj ]
          IN  /\ current' = CurrentAfter(kw)
              /\ spaces' = SpacesAfter(kw)
    /\ UNCHANGED << vertices, primitives, components, nadds, lastadd, disp,
                    frame, varsV, varsP, varsK, varsX >>

\* Scheme.add(points, space=obj)
AddIn ==
    /\ disp.status = "none"
    /\ nadds < MaxAdds
    /\ \E obj \in SpaceKw : \E n \in 0..(MaxBatchVerts - Len(vertices)) :
          AddPointsWith([ NoKw EXCEPT !.space = obj ], n)

\* Scheme.component(obj, space=...)
Component ==
    /\ disp.status = "none"
    /\ Len(components) < MaxComponents
    /\ \E obj \in SpaceKw :
          LET kw == [ NoKw EXCEPT !.space = obj ]
          IN  /\ current' = CurrentAfter(kw)
              /\ spaces' = SpacesAfter(kw)
              /\ components' =
                    Append(components, << CurrentAfter(kw).space, "obj" >>)
    /\ UNCHANGED << vertices, primitives, nadds, lastadd, disp, frame, varsV,
                    varsP, varsK, varsX >>

NextRegister == SetSpace \/ AddIn \/ Component

SpecRegister == InitScheme /\ [][NextRegister]_vars

\* ---- a scheme that is given a sequence of mixed elements
\* the elements of a sequence: a point, or a Web of a few points joined in a
\* chain, which the loop hands to a nested add
SeqElements ==
    { [ kind |-> "point", n |-> 1, edges |-> << >> ] }
    \cup { [ kind |-> "Web", n |-> m,
             edges |-> [ j \in 1..(m - 1) |-> << j - 1, j >> ] ] :
              m \in 1..MaxNested }

\* for obj in obj: a point is appended and counted in n, anything else goes
\* through self.add(obj), which appends its vertices and indices itself
RECURSIVE AddElements(_, _, _, _, _, _)
AddElements(vs, indices, elems, k, n, cur) ==
    IF k > Len(elems) THEN [ vs |-> vs, indices |-> indices, n |-> n ]
    ELSE IF elems[k].kind = "point"
    THEN AddElements(vs \o NewVertices(cur, 1), indices, elems, k + 1, n + 1,
                     cur)
    ELSE LET l2 == Len(vs)
             edges == elems[k].edges
             tracks == [ j \in DOMAIN edges |-> 0 ]
         IN  AddElements(
                 BackPropagate(vs \o NewVertices(cur, elems[k].n), edges,
                               tracks, l2, 1),
                 indices \o Offset(edges, l2), elems, k + 1, n, cur)

\* Scheme.add(obj, **kw) for a sequence, on a scheme that had no sequence yet
AddSequence ==
    /\ disp.status = "none"
    /\ lastadd.kind # "sequence"
    /\ \E sh \in { "-", "line" } :
       \E elems \in SeqsUpTo(SeqElements, MaxSeqLen) :
          LET cur == CurrentAfter([ NoKw EXCEPT !.shader = sh ])
              l == Len(vertices)
              indices == PrimitivesWith(primitives, cur.shader)
              r == AddElements(vertices, indices[cur.shader], elems, 1, l, cur)
          IN  /\ current' = cur
              /\ vertices' = r.vs
              /\ primitives' =
                    [ indices EXCEPT
                        ![cur.shader] = r.indices \o Polyline(l, r.n) ]
              /\ lastadd' = [ kind |-> "sequence", l |-> l,
                              n |-> Len(r.vs) - l, prims |-> Polyline(l, r.n),
                              tracks |-> << >>, shader |-> cur.shader,
                              elems |-> elems ]
    /\ nadds' = nadds + 1
    /\ UNCHANGED << spaces, components, disp, frame, varsV, varsP, varsK,
                    varsX >>

NextSequence == AddFirstPoints \/ AddSequence \/ Compile

SpecSequence == InitScheme /\ [][NextSequence]_vars

\* ---- the frames of a compiled display
\* the user moves the camera: the next frame has other view matrices
MoveCamera ==
    /\ disp.status = "ok"
    /\ \E c \in 0..MaxCamera : c # camera /\ camera' = c
    /\ UNCHANGED << spacecam, lastdraw, varsV, varsP, varsK, varsS, varsC,
                    varsT >>

NextFrames == AddFirstPoints \/ Compile \/ MoveCamera \/ Render \/ Identify

SpecFrames == InitScheme /\ [][NextFrames]_vars

\* ===================================================== claims on Vertices

\* the selection state a query by ident reports for vertex v
VertexSelected(fl, v) == idents[v] \in SelectQuery(fl, {idents[v]})
\* the vertices whose ident can be queried (an ident past the flags raises)
Queryable == { v \in DOMAIN idents : InRange(flags, {idents[v]}) }

\* C2: after a completed select(idents, True), every vertex carrying one of the
\* idents is reported selected, and a vertex of another ident is reported
\* selected only if it was before the call.
C2_SelectTrueSelectsIdentGroup ==
    [][ (last'.op = "select" /\ last'.state = "True" /\ last'.ret = "None")
        => \A v \in Queryable :
              VertexSelected(flags', v)
                <=> (idents[v] \in last'.idents \/ VertexSelected(flags, v)) ]_vars

\* a select(idents, True) that completed on a store where two vertices share a
\* selected ident and a third vertex, of another ident, stayed unselected
C2_Witness ==
    /\ last.op = "select" /\ last.state = "True" /\ last.ret = "None"
    /\ \E v, w, x \in Queryable :
          /\ v # w /\ idents[v] = idents[w] /\ idents[v] \in last.idents
          /\ VertexSelected(flags, v) /\ VertexSelected(flags, w)
          /\ idents[x] \notin last.idents /\ ~VertexSelected(flags, x)

\* C3: update uploads only when the dirty flag was set, leaves it cleared when
\* it returns, and so uploads at most once between two select calls with a state.
C3_UpdateUploadsOnlyWhenDirty ==
    [][ last'.op = "update"
        => /\ (last'.ret = "uploaded" => flags_updated)
           /\ (last'.ret \in {"None", "uploaded"} => ~flags_updated')
           /\ uploads' <= 1 ]_vars

\* an update that found the flag cleared by an earlier uploading update
C3_Witness ==
    /\ last.op = "update" /\ last.ret = "None"
    /\ uploads = 1 /\ ~flags_updated

\* C4: in every state of a constructed store nident is the largest ident plus one.
C4_NidentIsMaxPlusOne ==
    store = "ok" =>
        /\ \A v \in DOMAIN idents : idents[v] < nident
        /\ \E v \in DOMAIN idents : idents[v] = nident - 1

\* a store with two idents on which select, control and update have run
C4_Witness ==
    /\ store = "ok" /\ nident = 2
    /\ last.op = "update" /\ last.ret = "uploaded"
    /\ \E i \in 0..(nident - 1) : i \in SelectQuery(flags, {i})

\* C9: a store is constructed only from positions and idents of equal length.
C9_ConstructRejectsLengthMismatch ==
    store = "ok" => Len(positions) = Len(idents)


\* =================================================== claims on the ident pass

\* C1: the ranges [start, start + count) of the displays identified in one pass
\* follow each other from 0 to the running offset without gap or overlap, and
\* every ident a display writes lies in its own range.
C1_IdentRangesPartition ==
    /\ \A i \in DOMAIN identpass :
          identpass[i].start =
              IF i = 1 THEN 0
              ELSE identpass[i-1].start + identpass[i-1].count
    /\ startident =
          IF identpass = << >> THEN 0
          ELSE identpass[Len(identpass)].start + identpass[Len(identpass)].count
    /\ \A i \in DOMAIN identpass : \A w \in identpass[i].written :
          /\ identpass[i].start <= w
          /\ w < identpass[i].start + identpass[i].count
    /\ \A i, j \in DOMAIN identpass :
          i # j => identpass[i].written \cap identpass[j].written = {}

\* a pass over a solid then a scheme, both holding several idents
C1_Witness ==
    /\ Len(identpass) = 2
    /\ identpass[1].kind = "SolidDisplay" /\ identpass[1].count > 1
    /\ identpass[2].kind = "Scheme" /\ identpass[2].count > 1
    /\ Cardinality(identpass[2].written) > 1


\* ================================================ claims on the stack scheduler

\* C5: the entries run in one pass are all of that pass, each at most once, in
\* non-decreasing priority, entries of equal priority in declaration order; when
\* the pass is over every entry of the pass has run.
C5_PassRunsInStablePriorityOrder ==
    running # "idle" =>
        /\ \A a \in DOMAIN executed : stack[executed[a]].pass = running
        /\ \A a, b \in DOMAIN executed :
              a < b =>
                \/ stack[executed[a]].priority < stack[executed[b]].priority
                \/ /\ stack[executed[a]].priority = stack[executed[b]].priority
                   /\ executed[a] < executed[b]
        /\ queue = << >> =>
              { executed[a] : a \in DOMAIN executed }
                  = { i \in DOMAIN stack : stack[i].pass = running }

\* entries A(2), B(1), C(2), D(0) of the screen pass have run as D, B, A, C
C5_Witness ==
    /\ running = "screen" /\ queue = << >>
    /\ Len(stack) = 4
    /\ \A i \in DOMAIN stack : stack[i].pass = "screen"
    /\ << stack[1].priority, stack[2].priority, stack[3].priority,
          stack[4].priority >> = << 2, 1, 2, 0 >>
    /\ executed = << 4, 2, 1, 3 >>


\* ========================================================= claims on Scheme

\* the points of the last object added that belong to one of its faces or edges
Referred == UNION { Range(lastadd.prims[k]) : k \in DOMAIN lastadd.prims }

\* C6: after add of a mesh of n points and faces F onto l vertices the scheme
\* holds l + n vertices, the shader's index list ends with the triples of F
\* offset by l, and the three vertices of each face carry that face's track.
C6_AddMeshAppendsFacesAndTracks ==
    lastadd.kind = "Mesh" =>
        LET l == lastadd.l
            F == lastadd.prims
            batch == primitives[lastadd.shader]
        IN  /\ Len(vertices) = l + lastadd.n
            /\ Len(batch) >= Len(F)
            /\ \A k \in DOMAIN F :
                  batch[Len(batch) - Len(F) + k]
                      = << F[k][1] + l, F[k][2] + l, F[k][3] + l >>
            /\ \A k \in DOMAIN F : \A p \in Range(F[k]) :
                  vertices[p + l + 1].track = lastadd.tracks[k]

\* C7 as stated: a display compiled from one mesh or web, every point of which
\* is in a face or edge, has as many idents as the mesh has distinct tracks.
C7_NidentsIsTrackCount ==
    ( /\ disp.status = "ok" /\ nadds = 1
      /\ lastadd.kind \in { "Mesh", "Web" }
      /\ Referred = 0..(lastadd.n - 1) )
    => disp.nidents = Cardinality(Range(lastadd.tracks))

\* C7, amended: a display compiled from one mesh or web has nidents one more
\* than the largest track carried by a vertex of the scheme, so at least as
\* many idents as distinct vertex tracks, and exactly as many iff those tracks
\* are 0 .. nidents-1.
C7_NidentsIsMaxVertexTrackPlusOne ==
    ( /\ disp.status = "ok" /\ nadds = 1
      /\ lastadd.kind \in { "Mesh", "Web" } )
    => LET T == { vertices[i].track : i \in DOMAIN vertices }
       IN  /\ \A t \in T : t < disp.nidents
           /\ (disp.nidents - 1) \in T
           /\ Cardinality(T) <= disp.nidents
           /\ (Cardinality(T) = disp.nidents) <=> (T = 0..(disp.nidents - 1))

\* a display compiled from one mesh of two faces of different tracks
C7_Witness ==
    /\ disp.status = "ok" /\ nadds = 1 /\ lastadd.kind = "Mesh"
    /\ Len(lastadd.prims) = 2
    /\ lastadd.tracks[1] # lastadd.tracks[2]
    /\ disp.nidents = 2

\* C8: a display compiled from more than max_spaces spaces has warned, and
\* every render of it completes.
C8_RenderSurvivesSpaceOverflow ==
    /\ (disp.status = "ok" /\ Len(disp.spacegens) > max_spaces) => disp.warned
    /\ frame.status # "none" => frame.status = "rendered"

\* C10 as stated: a compile of a scheme that registered a shader name missing
\* from the shader table does not succeed.
C10_CompileFailsOnAnyUnknownName ==
    ( /\ disp.status # "none"
      /\ \E name \in DOMAIN primitives : name \notin DOMAIN shaders )
    => disp.status # "ok"

\* C10, amended: compile raises KeyError exactly when a shader name with a
\* non-empty index list is missing from the shader table (names with an empty
\* list are skipped); otherwise it succeeds when the scheme holds a vertex and
\* raises ValueError when it holds none.
C10_CompileFailsOnUnknownNonEmptyBatch ==
    disp.status # "none" =>
        LET unknown == { name \in DOMAIN primitives :
                            /\ primitives[name] # << >>
                            /\ name \notin DOMAIN shaders }
        IN  /\ disp.status = "KeyError" <=> unknown # {}
            /\ disp.status = "ok" <=> (unknown = {} /\ vertices # << >>)
            /\ disp.status = "ValueError" <=> vertices = << >>

\* a compile that failed on the non-empty list of 'wire' while another name
\* was registered too
C10_Witness ==
    /\ disp.status = "KeyError"
    /\ "wire" \in DOMAIN primitives /\ primitives["wire"] # << >>
    /\ \E name \in DOMAIN primitives : name \in DOMAIN shaders


\* ============================================ claims on composite displays

\* the sub-displays drawn by the last call, in order
DrawnSubs ==
    { call.events[k].step : k \in DOMAIN call.events } \ { "update" }

\* C11: identify of a primitive sub-display (FacesDisplay, LinesDisplay,
\* PointsDisplay) completes, draws once with the given start_ident and returns
\* the nident of its store.
C11_SubIdentifyReturnsNident ==
    call.op = "subidentify" =>
        /\ call.ret = "int"
        /\ call.value = nident
        /\ Len(call.events) = 1
        /\ call.events[1].step = call.sub
        /\ call.events[1].start = call.start

\* C12: on a composite display select(idents) returns the selection state
\* held by the store, select(idents, state) sets it, and control on ident i
\* negates the state of i and leaves every other ident's state unchanged.
C12_CompositeSelectDelegates ==
    /\ []((call.op = "query" /\ last.ret = "flags") => call.ret = "flags")
    /\ [][(call'.op = "select" /\ call'.ret = "None") =>
            \A i \in last'.idents :
                (i \in SelectQuery(flags', {i})) <=> (last'.state = "True")]_vars
    /\ [][(call'.op = "control" /\ call'.ret = "None") =>
            \A i \in 0..(nident - 1) :
                InRange(flags, {i}) =>
                    ((i \in SelectQuery(flags', {i}))
                        <=> IF i \in last'.idents
                            THEN ~(i \in SelectQuery(flags, {i}))
                            ELSE i \in SelectQuery(flags, {i}))]_vars

\* C13: in a render of a composite display Vertices.update runs exactly once
\* and first, so every sub-display draws with the dirty flag false, and the
\* flag is false when the render returns.
C13_SyncPrecedesDraws ==
    call.op = "render" =>
        LET ev == call.events
        IN  /\ Cardinality({ k \in DOMAIN ev : ev[k].step = "update" }) = 1
            /\ ev[1].step = "update"
            /\ \A k \in DOMAIN ev : ev[k].step # "update" => ~ev[k].dirty
            /\ call.ret = "None" => ~flags_updated

\* a render that found the store dirty, synchronized it and then drew
C13_Witness ==
    /\ call.op = "render" /\ call.ret = "None"
    /\ Len(call.events) > 1
    /\ call.events[1].dirty
    /\ last.ret = "uploaded"

\* C14: identify of a composite draws exactly one sub-display, faces for a
\* SolidDisplay and edges for a WebDisplay, whatever the display modes, and
\* returns the store's nident; the sub-displays a render draws are those the
\* display modes select when the render is called.
C14_IdentifyIgnoresDisplayModes ==
    /\ call.op = "identify" =>
          /\ call.ret = "int" /\ call.value = nident
          /\ Len(call.events) = 1
          /\ call.events[1].start = call.start
          /\ call.events[1].step =
                IF comp = "SolidDisplay" THEN "disp_faces" ELSE "disp_edges"
    /\ (call.op = "render" /\ call.ret = "None") =>
          /\ DrawnSubs \subseteq SubDisplays(comp)
          /\ "disp_groups" \in DrawnSubs <=> options.display_groups
          /\ "disp_points" \in DrawnSubs <=> options.display_points
          /\ comp = "SolidDisplay" =>
                /\ "disp_faces" \in DrawnSubs <=> options.display_faces
                /\ "disp_wire" \in DrawnSubs <=> options.display_wire
          /\ comp = "WebDisplay" => "disp_edges" \in DrawnSubs

\* an identify of a SolidDisplay that drew the faces while no display mode
\* was on
C14_Witness ==
    /\ call.op = "identify" /\ comp = "SolidDisplay"
    /\ options = NoOptions
    /\ call.events[1].step = "disp_faces"
    /\ call.value = nident


\* ================================================ claims on Scheme spaces

\* C15: after any sequence of set / add / component calls the space list has
\* no duplicate, the current space and the space of every vertex are valid
\* indices into it, and no call changes the index of a registered space or
\* the space index of a vertex already added.
C15_SpaceIndicesStable ==
    /\ [](/\ \A i, j \in DOMAIN spaces : spaces[i] = spaces[j] => i = j
          /\ current.space \in 0..(Len(spaces) - 1)
          /\ \A v \in DOMAIN vertices :
                vertices[v].space \in 0..(Len(spaces) - 1))
    /\ [][/\ \A i \in DOMAIN spaces :
                i \in DOMAIN spaces' /\ spaces'[i] = spaces[i]
          /\ \A v \in DOMAIN vertices :
                v \in DOMAIN vertices'
                    /\ vertices'[v].space = vertices[v].space]_vars

\* a scheme that holds a vertex in the third space while the current space
\* is again the second one
C15_Witness ==
    /\ Len(spaces) = 3
    /\ Len(vertices) >= 1 /\ vertices[1].space = 2
    /\ current.space = 1


\* the vertex index each point element of a sequence lands on, when the vertex
\* of its first element is at
RECURSIVE PointPositions(_, _, _)
PointPositions(elems, k, at) ==
    IF k > Len(elems) THEN << >>
    ELSE (IF elems[k].kind = "point" THEN << at >> ELSE << >>)
            \o PointPositions(elems, k + 1, at + elems[k].n)

\* C16: add of a sequence appends line pairs that connect exactly each point
\* element to the next point element of the sequence, also when the sequence
\* holds other elements, whose vertices are never joined to its points.
C16_SequenceIsOpenPolyline ==
    lastadd.kind = "sequence" =>
        LET pp == PointPositions(lastadd.elems, 1, lastadd.l)
            batch == primitives[lastadd.shader]
            pairs == lastadd.prims
        IN  /\ pairs = [ j \in 1..(Len(pp) - 1) |-> << pp[j], pp[j + 1] >> ]
            /\ Len(batch) >= Len(pairs)
            /\ \A j \in DOMAIN pairs :
                  batch[Len(batch) - Len(pairs) + j] = pairs[j]


\* ======================================= claims on the compiled Scheme display

\* C17: every pass drawn by a Scheme display, screen or ident, uses space
\* transforms computed for the camera state of the frame it is drawn in.
C17_DrawsUseCurrentSpaces ==
    lastdraw.pass # "none" => lastdraw.used = lastdraw.cam

\* the components of the Scheme displays of a tree
ComponentNodes(t) ==
    { i \in 2..Len(t) : t[t[i].parent].class = "Scheme.display" }

\* C18: the stack of a display starts with its own screen and ident entries
\* and holds, exactly once, the screen entry and the ident entry of every
\* component nested below it.
C18_StackHoldsEveryComponent ==
    flat # << >> =>
        /\ Len(flat) >= 2
        /\ flat[1] = [ node |-> 1, pass |-> "screen", priority |-> 2 ]
        /\ flat[2] = [ node |-> 1, pass |-> "ident", priority |-> 2 ]
        /\ \A c \in ComponentNodes(tree) : \A p \in { "screen", "ident" } :
              Cardinality({ k \in DOMAIN flat :
                              flat[k].node = c /\ flat[k].pass = p }) = 1

\* C19: the ident pass of a compiled Scheme display draws every batch with
\* the topology of its shader: what identify draws is what render draws.
C19_IdentPassDrawsSameTopology ==
    lastdraw.pass = "ident" =>
        lastdraw.drawn =
            UNION { Drawn(shaders[name], primitives[name]) :
                       name \in Referenced(primitives) }


\* ================================================= claims on flag indexing

\* C20: for every ident i in [0, nident) select(i), select(i, state) and
\* control on i end without an out-of-range access to the flags array.
C20_SelectNeverOutOfRange ==
    last.op \in { "select", "query", "control" } => last.ret # "IndexError"


\* =========================================== claims on schemes without vertex

\* C21: compiling a scheme that holds no vertex (components only, or nothing)
\* succeeds and gives a display that contributes no ident.
C21_CompileWithoutVertices ==
    (disp.status # "none" /\ vertices = << >>) =>
        /\ disp.status = "ok"
        /\ disp.nidents = 0

====
